---- MODULE Spec2Model ----
(***************************************************************************)
(* The SqlObject accumulator of src/dataGather.py and its three            *)
(* subclasses (FedData, BLSData, CompaniesData): the nested mapping        *)
(* self.data built by the parse methods, and recurse_parse, which walks    *)
(* it, checks every leaf against the table (_select), updates the rows     *)
(* that exist (_update) and bulk-inserts the others (_insert).             *)
(*                                                                         *)
(* The MySQL table is a sequence of rows, each a mapping from column name  *)
(* to an SQL value (NULL or a string).  Python dict objects that the       *)
(* scratch list _db_line and the rows of _insert_list share by reference   *)
(* live in `heap`; a cell of _db_line is a dimension key or a reference.   *)
(*                                                                         *)
(* Spec is the run of one subclass: gather, then flush.  SpecAnyTree adds  *)
(* accumulators whose self.data holds a tree of uneven depth.  SpecChunk   *)
(* is BLSData.execute before its flush: _chunk_list and the API calls.     *)
(*                                                                         *)
(* Left out: the cursor object (self._cursor), the HTTP and browser calls  *)
(* that fetch the records, the regular-expression filters of lines 372 and *)
(* 385 (the inputs are symbols and codes that pass them), the error_code   *)
(* branch of _fed_parse (no observation is merged), four of the six BLS    *)
(* measure codes, and BLSData._consolidate_gaps, which runs after          *)
(* recurse_parse has returned.                                             *)
(***************************************************************************)
EXTENDS Integers, Sequences, FiniteSets, TLC

VARIABLES
    class,            \* which subclass was constructed
    dimension_list,   \* self.dimension_list
    metric_list,      \* self.metric_list
    data,             \* self.data: the nested mapping (the tree)
    _db_line,         \* self._db_line: the scratch row
    _insert_list,     \* self._insert_list: rows waiting for the bulk insert
    heap,             \* the dict objects created at the leaves (line 68)
    _cnx,             \* self._cnx: "none", "open" or "closed"
    store,            \* the rows of self.table in the database
    pc,               \* where the run is
    stack,            \* the active calls of recurse_parse, innermost first
    insert_list_index,\* the local of _insert (line 125)
    flushNo,          \* history: calls of recurse_parse so far
    prevOk,           \* history: the previous flush returned normally
    storeAtStart,     \* history: the table when the current flush began
    selCount,         \* history: existence checks per path, this flush
    updCount,         \* history: UPDATE statements per path, this flush
    insCount,         \* history: bulk-inserted rows per path, this flush
    lastCheck,        \* history: the latest existence check and its outcome
    lastStmt,         \* history: the latest write statement executed
    stmts,            \* history: the bulk inserts executed by this flush
    insertCalls,      \* history: calls of _insert in this flush
    connects,         \* history: connections acquired in this flush
    _series_id_list,  \* BLSData._series_id_list
    current_list,     \* the local of _chunk_list (line 269)
    chunked_lists,    \* the local of _chunk_list (line 268), then chunked_list
    entry_index,      \* entries the loop of line 270 has taken
    total_api_calls,  \* the local of BLSData.execute (line 219)
    calls,            \* history: the lists passed to _blsGetData
    xpc               \* where BLSData.execute is before its flush

vars == <<class, dimension_list, metric_list, data, _db_line, _insert_list,
          heap, _cnx, store, pc, stack, insert_list_index, flushNo, prevOk,
          storeAtStart, selCount, updCount, insCount, lastCheck, lastStmt,
          stmts, insertCalls, connects, _series_id_list, current_list,
          chunked_lists, entry_index, total_api_calls, calls, xpc>>

bls == <<_series_id_list, current_list, chunked_lists, entry_index,
         total_api_calls, calls, xpc>>

conf == <<class, dimension_list, metric_list>>
hist == <<flushNo, prevOk, storeAtStart, selCount, updCount, insCount,
          lastCheck, lastStmt, stmts, insertCalls, connects>>

(***************************************************************************)
(* Bounds.                                                                 *)
(***************************************************************************)
\* metric entries a tree may hold (the API responses are finite)
MaxEntries == 3
\* calls of recurse_parse in one behaviour
MaxFlushes == 2
\* placeholders per INSERT statement: the 65535 of line 124, scaled so that
\* a buffer of three rows already needs more than one statement
MaxPlaceholders == 7

\* series ids _construct_series_id_list may build
MaxSeries == 103

\* the chunk length of line 271 and the call cap of line 224
ChunkLength == 50
ApiCallLimit == 500

(***************************************************************************)
(* Values.                                                                 *)
(***************************************************************************)
EmptyMap == [k \in {} |-> k]

Put(f, k, v) == [x \in DOMAIN f \cup {k} |-> IF x = k THEN v ELSE f[x]]

\* a Python value held in the tree: a dict or a string
Val(s) == [dict |-> FALSE, kids |-> EmptyMap, val |-> s]
Dict(kids) == [dict |-> TRUE, kids |-> kids, val |-> ""]

\* the marker recurse_parse writes for a metric the leaf lacks (line 73)
NullMarker == "NULL"

\* an SQL value: NULL or a string
SqlNull == [null |-> TRUE, s |-> ""]
SqlStr(s) == [null |-> FALSE, s |-> s]

\* a cell of _db_line: a dimension key, or a reference to a dict of the heap
Key(s) == [ref |-> 0, key |-> s]
Ref(n) == [ref |-> n, key |-> ""]

Min(a, b) == IF a < b THEN a ELSE b

(***************************************************************************)
(* Construction: the three subclasses' __init__.                           *)
(***************************************************************************)
Classes == {"FedData", "BLSData", "CompaniesData"}

\* BLSData.measure_codes, two of the six
measure_codes == [c \in {"L020", "C020"} |->
                    IF c = "L020" THEN "laborCostMil" ELSE "capitalCostMil"]

Dimensions(c) ==
    CASE c = "FedData" -> <<"date">>
      [] c = "BLSData" -> <<"industryCode", "date">>
      [] c = "CompaniesData" -> <<"symbol">>

Metrics(c) ==
    CASE c = "FedData" -> <<"unemployment", "gdp">>
      [] c = "BLSData" -> <<"laborCostMil", "capitalCostMil">>
      [] c = "CompaniesData" -> <<"name", "sicCode">>

Range(s) == {s[i] : i \in 1..Len(s)}

\* the columns of the class's table
Columns(c) ==
    Range(Dimensions(c)) \cup Range(Metrics(c))
        \cup (IF c = "CompaniesData" THEN {"lastUpdated"} ELSE {})

(***************************************************************************)
(* Inputs: what the record sources return.                                 *)
(***************************************************************************)
FedDates == {"2019-01-01", "2020-01-01"}
FedValues == {"0", "", "."}
\* the (seriesID[4:11], year) pairs of the observations the BLS API returns
BlsObservations == { <<"N3111__", "2006">>, <<"N3111__", "2007">>,
                     <<"N3112__", "2006">> }
BlsValues == {"0"}
Symbols == {"F", "GM", "X"}
Names == {"Ford"}
SicCodes == {"3711"}
Today == "2026-11-02"

\* "%s-01-01" % (data["year"]), line 314
BlsDate(year) == IF year = "2006" THEN "2006-01-01" ELSE "2007-01-01"

\* the first dimension path the sources can produce, for the initial table
FirstPath(c) ==
    CASE c = "FedData" -> <<"2019-01-01">>
      [] c = "BLSData" -> <<"N3111__", "2006-01-01">>
      [] c = "CompaniesData" -> <<"F">>

StoreRow(c, path, value) ==
    [col \in Columns(c) |->
        IF \E i \in 1..Len(path) : Dimensions(c)[i] = col
        THEN SqlStr(path[CHOOSE i \in 1..Len(path) : Dimensions(c)[i] = col])
        ELSE value]

\* a dimension path of an earlier run that the sources no longer return
OtherPath(c) ==
    CASE c = "FedData" -> <<"2018-01-01">>
      [] c = "BLSData" -> <<"N3111__", "2005-01-01">>
      [] c = "CompaniesData" -> <<"AA">>

\* the table before the run: empty, or two rows of one path and one row of
\* a path of an earlier run
InitialStores(c) ==
    { <<>>,
      << StoreRow(c, FirstPath(c), SqlStr("9")),
         StoreRow(c, FirstPath(c), SqlNull),
         StoreRow(c, OtherPath(c), SqlStr("9")) >> }

(***************************************************************************)
(* Paths and leaves of the tree.                                           *)
(***************************************************************************)
\* a mapping is a leaf when the loop of line 63 can meet a non-dict value
IsLeafMap(kids) == \E k \in DOMAIN kids : ~kids[k].dict

RECURSIVE LeafPathsFrom(_, _)
LeafPathsFrom(kids, prefix) ==
    IF IsLeafMap(kids)
    THEN {prefix}
    ELSE UNION { LeafPathsFrom(kids[k].kids, Append(prefix, k)) : k \in DOMAIN kids }

LeafPaths == LeafPathsFrom(data, <<>>)

RECURSIVE NodeAt(_, _)
NodeAt(kids, path) ==
    IF path = <<>> THEN kids ELSE NodeAt(kids[Head(path)].kids, Tail(path))

LeafAt(path) == NodeAt(data, path)

RECURSIVE EntriesFrom(_, _)
\* the (path, metric, value) triples a tree holds
EntriesFrom(kids, prefix) ==
    UNION { IF kids[k].dict
            THEN EntriesFrom(kids[k].kids, Append(prefix, k))
            ELSE { <<prefix, k, kids[k].val>> } : k \in DOMAIN kids }

Entries(kids) == EntriesFrom(kids, <<>>)

ZeroCounts == [p \in LeafPaths |-> 0]
NoCheck == [done |-> FALSE, path |-> <<>>, equalRows |-> 0, rowcount |-> 0,
            outcome |-> "none"]
NoStmt == [kind |-> "none", path |-> <<>>, assigns |-> EmptyMap,
           rows |-> <<>>, leaf |-> EmptyMap]

\* lines 44-52, but for self.data
Constructed ==
    /\ class \in Classes
    /\ dimension_list = Dimensions(class)
    /\ metric_list = Metrics(class)
    /\ _db_line = <<>>
    /\ _insert_list = <<>>
    /\ heap = <<>>
    /\ _cnx = "none"
    /\ store \in InitialStores(class)
    /\ pc = "gather"
    /\ stack = <<>>
    /\ insert_list_index = 0
    /\ flushNo = 0
    /\ prevOk = FALSE
    /\ storeAtStart = store
    /\ selCount = EmptyMap
    /\ updCount = EmptyMap
    /\ insCount = EmptyMap
    /\ lastCheck = NoCheck
    /\ lastStmt = NoStmt
    /\ stmts = <<>>
    /\ insertCalls = 0
    /\ connects = 0

\* lines 214-215, and BLSData.execute not begun
NoSeries ==
    /\ _series_id_list = <<>>
    /\ current_list = <<>>
    /\ chunked_lists = <<>>
    /\ entry_index = 0
    /\ total_api_calls = 0
    /\ calls = <<>>
    /\ xpc = "idle"

Init ==
    /\ Constructed
    /\ data = EmptyMap
    /\ NoSeries

\* self.data is an ordinary attribute: trees a caller may have put there
\* whose depth is not len(dimension_list).  One is too deep, one too
\* shallow, one has a well-formed and a shallow sibling.
GivenTrees(c) ==
    CASE c = "FedData" ->
           { Put(EmptyMap, "2019-01-01",
                 Dict(Put(EmptyMap, "GDPA",
                          Dict(Put(EmptyMap, "unemployment", Val("0")))))) }
      [] c = "BLSData" ->
           { Put(EmptyMap, "N3111__",
                 Dict(Put(EmptyMap, "laborCostMil", Val("0")))),
             Put(Put(EmptyMap, "N3111__",
                     Dict(Put(EmptyMap, "2006-01-01",
                              Dict(Put(EmptyMap, "laborCostMil", Val("0")))))),
                 "N3112__", Dict(Put(EmptyMap, "laborCostMil", Val("0")))) }
      [] c = "CompaniesData" -> {}

InitAnyTree ==
    /\ Constructed
    /\ data \in {EmptyMap} \cup GivenTrees(class)
    /\ NoSeries

(***************************************************************************)
(* Building the tree.                                                      *)
(***************************************************************************)
\* MergeLeaf with the slip of assigning a new leaf where one exists
MergeLeafReplacing(leaf, present, metric, value) ==
    Put(EmptyMap, metric, Val(value))

\* lines 193-196 and 315-318: set one metric of the leaf, or start the leaf
MergeLeaf(leaf, present, metric, value) ==
    IF present
    THEN Put(leaf, metric, Val(value))
    ELSE Put(EmptyMap, metric, Val(value))

\* _fed_parse, one observation: self.data[date][output_column] = value
FedMerge(kids, date, output_column, value) ==
    LET present == date \in DOMAIN kids
    IN  Put(kids, date,
            Dict(MergeLeaf(IF present THEN kids[date].kids ELSE EmptyMap,
                           present, output_column, value)))

\* _bls_parse_data, one year of one series
BlsMerge(kids, series_id, measureCode, year, value) ==
    LET date == BlsDate(year)
        sub  == IF series_id \in DOMAIN kids THEN kids[series_id].kids ELSE EmptyMap
        present == date \in DOMAIN sub
    IN  Put(kids, series_id,
            Dict(Put(sub, date,
                     Dict(MergeLeaf(IF present THEN sub[date].kids ELSE EmptyMap,
                                    present, measure_codes[measureCode], value)))))

TreeFits(kids) == Cardinality(Entries(kids)) <= MaxEntries

_fed_parse ==
    /\ pc = "gather"
    /\ class = "FedData"
    /\ \E date \in FedDates, output_column \in Range(metric_list), value \in FedValues :
          /\ data' = IF value = "." THEN data
                     ELSE FedMerge(data, date, output_column, value)
          /\ TreeFits(data')
    /\ UNCHANGED <<bls, conf, _db_line, _insert_list, heap, _cnx, store, pc, stack,
                   insert_list_index, hist>>

_bls_parse_data ==
    /\ pc = "gather"
    /\ class = "BLSData"
    /\ \E obs \in BlsObservations, measureCode \in DOMAIN measure_codes,
          value \in BlsValues :
          /\ data' = BlsMerge(data, obs[1], measureCode, obs[2], value)
          /\ TreeFits(data')
    /\ UNCHANGED <<bls, conf, _db_line, _insert_list, heap, _cnx, store, pc, stack,
                   insert_list_index, hist>>

\* line 374: one line of a ticker file; the leaf carries lastUpdated too
_parse_ticker_symbols ==
    /\ pc = "gather"
    /\ class = "CompaniesData"
    /\ \E symbol \in Symbols, name \in Names :
          /\ data' = Put(data, symbol,
                         Dict([k \in {"name", "lastUpdated", "sicCode"} |->
                                 CASE k = "name" -> Val(name)
                                   [] k = "lastUpdated" -> Val(Today)
                                   [] k = "sicCode" -> Val("None")]))
          /\ Cardinality(DOMAIN data') <= MaxEntries
    /\ UNCHANGED <<bls, conf, _db_line, _insert_list, heap, _cnx, store, pc, stack,
                   insert_list_index, hist>>

\* lines 376-397: every symbol gets its SIC code or is deleted
_crawl_sic_codes ==
    /\ pc = "gather"
    /\ class = "CompaniesData"
    /\ \E found \in SUBSET (DOMAIN data), code \in SicCodes :
          data' = [s \in found |->
                     Dict([data[s].kids EXCEPT !["sicCode"] = Val(code)])]
    /\ pc' = "crawled"
    /\ UNCHANGED <<bls, conf, _db_line, _insert_list, heap, _cnx, store, stack,
                   insert_list_index, hist>>

(***************************************************************************)
(* The flush: recurse_parse.                                               *)
(***************************************************************************)
Frame(ds, idx, path) == [ds |-> ds, todo |-> DOMAIN ds, idx |-> idx, path |-> path]

Bump(f, p) == IF p \in DOMAIN f THEN [f EXCEPT ![p] = @ + 1] ELSE Put(f, p, 1)

\* where recurse_parse may be called: after the gather (lines 173, 231, 334),
\* again on an accumulator whose flush returned, or on the next run's new
\* accumulator
CanStart ==
    /\ flushNo < MaxFlushes
    /\ \/ pc = "gather" /\ class # "CompaniesData"
       \/ pc = "crawled"
       \/ pc = "done"
       \/ pc = "fresh"

StartHistory ==
    /\ flushNo' = flushNo + 1
    /\ prevOk' = (pc = "done" \/ (pc = "fresh" /\ prevOk))
    /\ storeAtStart' = store
    /\ selCount' = ZeroCounts
    /\ updCount' = ZeroCounts
    /\ insCount' = ZeroCounts
    /\ lastCheck' = NoCheck
    /\ lastStmt' = NoStmt
    /\ stmts' = <<>>
    /\ insertCalls' = 0

\* lines 60-62: the outermost call takes self.data and connects
recurse_parse ==
    /\ CanStart
    /\ _cnx' = "open"
    /\ connects' = 1
    /\ stack' = << Frame(data, 0, <<>>) >>
    /\ pc' = "iter"
    /\ StartHistory
    /\ UNCHANGED <<bls, conf, data, _db_line, _insert_list, heap, store, insert_list_index>>

\* line 62: mysql.connector.connect raises
ConnectFails ==
    /\ CanStart
    /\ connects' = 0
    /\ stack' = <<>>
    /\ pc' = "failed"
    /\ StartHistory
    /\ UNCHANGED <<bls, conf, data, _db_line, _insert_list, heap, _cnx, store,
                   insert_list_index>>

\* lines 81-86: store at _rowIndex, or append when the list is too short
_modify_db_line(line, branch, _rowIndex) ==
    IF _rowIndex + 1 <= Len(line)
    THEN [line EXCEPT ![_rowIndex + 1] = branch]
    ELSE Append(line, branch)

\* lines 64-66: a dict value: note the key and walk the sub-mapping
Descend ==
    /\ pc = "iter"
    /\ stack # <<>>
    /\ LET top == Head(stack) IN
       \E branch \in top.todo :
          /\ top.ds[branch].dict
          /\ _db_line' = _modify_db_line(_db_line, Key(branch), top.idx)
          /\ stack' = << Frame(top.ds[branch].kids, top.idx + 1,
                               Append(top.path, branch)) >>
                      \o << [top EXCEPT !.todo = @ \ {branch}] >>
                      \o Tail(stack)
    /\ UNCHANGED <<bls, conf, data, _insert_list, heap, _cnx, store, pc,
                   insert_list_index, hist>>

\* NullFill with the slip of filling "" for the marker
NullFillEmpty(leaf, seen, metrics) ==
    [k \in DOMAIN leaf \cup {m \in Range(metrics) : m \notin seen} |->
        IF k \in Range(metrics) /\ k \notin seen THEN Val("") ELSE leaf[k]]

\* lines 71-73: every metric `seen` lacks becomes the marker in the leaf dict
NullFill(leaf, seen, metrics) ==
    [k \in DOMAIN leaf \cup {m \in Range(metrics) : m \notin seen} |->
        IF k \in Range(metrics) /\ k \notin seen THEN Val(NullMarker) ELSE leaf[k]]

\* lines 69-70: copy every entry of the mapping into the leaf dict
CopyInto(leaf, ds) ==
    [k \in DOMAIN leaf \cup DOMAIN ds |-> IF k \in DOMAIN ds THEN ds[k] ELSE leaf[k]]

\* BuildRow filling the dict already at _db_line[_rowIndex], when there is
\* one, where line 68 puts a new dict
BuildRowReusing(ds, _rowIndex) ==
    IF _rowIndex + 1 <= Len(_db_line) /\ _db_line[_rowIndex + 1].ref # 0
    THEN LET id    == _db_line[_rowIndex + 1].ref
             heap2 == [heap EXCEPT ![id] = CopyInto(@, ds)]
             heap3 == [heap2 EXCEPT ![id] = NullFill(@, DOMAIN heap2[id], metric_list)]
         IN  [line |-> _db_line, heap |-> heap3]
    ELSE LET id    == Len(heap) + 1
             line  == _modify_db_line(_db_line, Ref(id), _rowIndex)
             heap2 == [Append(heap, EmptyMap) EXCEPT ![id] = CopyInto(@, ds)]
             heap3 == [heap2 EXCEPT ![id] = NullFill(@, DOMAIN heap2[id], metric_list)]
         IN  [line |-> line, heap |-> heap3]

\* lines 68-73: the row of a leaf.  A new dict goes to _db_line[_rowIndex];
\* the copies and the markers go to _db_line[-1]
BuildRow(ds, _rowIndex) ==
    LET id     == Len(heap) + 1
        line   == _modify_db_line(_db_line, Ref(id), _rowIndex)
        heap1  == Append(heap, EmptyMap)
        last   == line[Len(line)].ref
        heap2  == [heap1 EXCEPT ![last] = CopyInto(@, ds)]
        heap3  == [heap2 EXCEPT ![last] = NullFill(@, DOMAIN heap2[id], metric_list)]
    IN  [line |-> line, heap |-> heap3]

\* "%s" % x for a cell of the row
Fmt(cell) == IF cell.ref = 0 THEN cell.key ELSE "<dict>"

\* lines 110-113, 135-138: the marker goes out bare, anything else quoted
SqlLiteral(v) == IF v.val = NullMarker /\ ~v.dict THEN SqlNull ELSE SqlStr(v.val)

\* lines 91-97: the WHERE of the SELECT; a "NULL" after the first dimension
\* is compared as "= NULL"
SelectWhere(line) ==
    [i \in 1..Min(Len(dimension_list), Len(line)) |->
        [col |-> dimension_list[i],
         val |-> IF i > 1 /\ line[i] = Key("NULL")
                 THEN SqlNull ELSE SqlStr(Fmt(line[i]))]]

\* UpdateWhere comparing the first dimension only (line 114 without the
\* loop of lines 115-116)
UpdateWhereFirst(line) ==
    [i \in 1..Min(1, Len(line)) |->
        [col |-> dimension_list[i], val |-> SqlStr(Fmt(line[i]))]]

\* lines 114-116: the WHERE of the UPDATE: every dimension quoted
UpdateWhere(line) ==
    [i \in 1..Min(Len(dimension_list), Len(line)) |->
        [col |-> dimension_list[i], val |-> SqlStr(Fmt(line[i]))]]

\* MySQL: a row is selected when every comparison is true; "= NULL" never is
Matches(row, where) ==
    \A i \in 1..Len(where) : ~where[i].val.null /\ row[where[i].col] = where[i].val

Rowcount(where) == Cardinality({i \in 1..Len(store) : Matches(store[i], where)})

\* RowExists with the slip of > for >=
RowExistsStrict(rowcount) == rowcount > 1

\* line 100
RowExists(rowcount) == rowcount >= 1

\* UpdateAssigns iterating metric_list, as _insert does, not the leaf dict
UpdateAssignsDeclared(leaf) ==
    [k \in DOMAIN leaf \cap Range(metric_list) |-> SqlLiteral(leaf[k])]

\* lines 109-113: SET key = value for every key of the leaf dict
UpdateAssigns(leaf) == [k \in DOMAIN leaf |-> SqlLiteral(leaf[k])]

\* the table after UPDATE ... SET assigns WHERE where
Updated(assigns, where) ==
    [i \in 1..Len(store) |->
        IF Matches(store[i], where)
        THEN [c \in DOMAIN store[i] |->
                 IF c \in DOMAIN assigns THEN assigns[c] ELSE store[i][c]]
        ELSE store[i]]

\* rows whose dimension fields all equal the dimension values of the path
EqualRows(path) ==
    Cardinality({i \in 1..Len(store) :
        \A j \in 1..Len(dimension_list) :
            j <= Len(path) /\ store[i][dimension_list[j]] = SqlStr(path[j])})

\* lines 67-75 with _select (88-104) finding the row and _update (106-119)
\* writing it
_update ==
    /\ pc = "iter"
    /\ stack # <<>>
    /\ LET top == Head(stack) IN
       \E branch \in top.todo :
          /\ ~top.ds[branch].dict
          /\ LET row     == BuildRow(top.ds, top.idx)
                 leaf    == row.heap[row.line[Len(row.line)].ref]
                 rc      == Rowcount(SelectWhere(row.line))
                 assigns == UpdateAssigns(leaf)
             IN  /\ RowExists(rc)
                 /\ DOMAIN assigns \subseteq Columns(class)
                 /\ _db_line' = row.line
                 /\ heap' = row.heap
                 /\ store' = Updated(assigns, UpdateWhere(row.line))
                 /\ selCount' = Bump(selCount, top.path)
                 /\ updCount' = Bump(updCount, top.path)
                 /\ lastCheck' = [done |-> TRUE, path |-> top.path,
                                  equalRows |-> EqualRows(top.path),
                                  rowcount |-> rc, outcome |-> "update"]
                 /\ lastStmt' = [kind |-> "UPDATE", path |-> top.path,
                                 assigns |-> assigns, rows |-> <<>>,
                                 leaf |-> top.ds]
          /\ stack' = << [top EXCEPT !.todo = {}] >> \o Tail(stack)
    /\ UNCHANGED <<bls, conf, data, _insert_list, _cnx, pc, insert_list_index,
                   flushNo, prevOk, storeAtStart, insCount, stmts, insertCalls,
                   connects>>

\* lines 67-75 with _select finding no row: the row is kept for _insert
_select ==
    /\ pc = "iter"
    /\ stack # <<>>
    /\ LET top == Head(stack) IN
       \E branch \in top.todo :
          /\ ~top.ds[branch].dict
          /\ LET row == BuildRow(top.ds, top.idx)
                 rc  == Rowcount(SelectWhere(row.line))
             IN  /\ ~RowExists(rc)
                 /\ _db_line' = row.line
                 /\ heap' = row.heap
                 /\ _insert_list' = Append(_insert_list, row.line)
                 /\ selCount' = Bump(selCount, top.path)
                 /\ lastCheck' = [done |-> TRUE, path |-> top.path,
                                  equalRows |-> EqualRows(top.path),
                                  rowcount |-> rc, outcome |-> "append"]
          /\ stack' = << [top EXCEPT !.todo = {}] >> \o Tail(stack)
    /\ UNCHANGED <<bls, conf, data, _cnx, store, pc, insert_list_index,
                   flushNo, prevOk, storeAtStart, updCount, insCount, lastStmt,
                   stmts, insertCalls, connects>>

\* line 98: the SELECT raises; nothing catches it
SelectFails ==
    /\ pc = "iter"
    /\ stack # <<>>
    /\ LET top == Head(stack) IN
       \E branch \in top.todo :
          /\ ~top.ds[branch].dict
          /\ LET row == BuildRow(top.ds, top.idx)
             IN  /\ _db_line' = row.line
                 /\ heap' = row.heap
    /\ pc' = "failed"
    /\ stack' = <<>>
    /\ UNCHANGED <<bls, conf, data, _insert_list, _cnx, store, insert_list_index, hist>>

\* lines 118-119: the UPDATE or its commit raises; nothing catches it
UpdateFails ==
    /\ pc = "iter"
    /\ stack # <<>>
    /\ LET top == Head(stack) IN
       \E branch \in top.todo :
          /\ ~top.ds[branch].dict
          /\ LET row == BuildRow(top.ds, top.idx)
                 rc  == Rowcount(SelectWhere(row.line))
             IN  /\ RowExists(rc)
                 /\ _db_line' = row.line
                 /\ heap' = row.heap
                 /\ selCount' = Bump(selCount, top.path)
                 /\ lastCheck' = [done |-> TRUE, path |-> top.path,
                                  equalRows |-> EqualRows(top.path),
                                  rowcount |-> rc, outcome |-> "update"]
    /\ pc' = "failed"
    /\ stack' = <<>>
    /\ UNCHANGED <<bls, conf, data, _insert_list, _cnx, store, insert_list_index,
                   flushNo, prevOk, storeAtStart, updCount, insCount, lastStmt,
                   stmts, insertCalls, connects>>

(***************************************************************************)
(* The end of a call, and the bulk insert.                                 *)
(***************************************************************************)
\* IsOutermost with the test of line 76 dropped: every call runs the tail
IsOutermostAlways(_rowIndex) == TRUE

\* line 76
IsOutermost(_rowIndex) == _rowIndex = 0

\* lines 76-78, or the return of an inner call: the loop of line 63 is over
EndLoop ==
    /\ pc = "iter"
    /\ stack # <<>>
    /\ Head(stack).todo = {}
    /\ IF IsOutermost(Head(stack).idx)
       THEN /\ stack' = stack
            /\ IF Len(_insert_list) > 0
               THEN /\ pc' = "insert"
                    /\ insert_list_index' = 0
                    /\ insertCalls' = insertCalls + 1
               ELSE /\ pc' = "close"
                    /\ UNCHANGED <<insert_list_index, insertCalls>>
       ELSE /\ stack' = Tail(stack)
            /\ UNCHANGED <<pc, insert_list_index, insertCalls>>
    /\ UNCHANGED <<bls, conf, data, _db_line, _insert_list, heap, _cnx, store,
                   flushNo, prevOk, storeAtStart, selCount, updCount, insCount,
                   lastCheck, lastStmt, stmts, connects>>

\* max_query_size with the division by the field count forgotten
MaxQuerySizeUndivided(dimensions, metrics) == MaxPlaceholders

\* line 124: rows per statement
max_query_size(dimensions, metrics) ==
    MaxPlaceholders \div (Len(dimensions) + Len(metrics))

RECURSIVE TakeRowsOneMore(_, _, _, _)
\* TakeRows with the slip of <= for < in the loop of line 130
TakeRowsOneMore(insert_query_size, index, len, max) ==
    IF insert_query_size <= max /\ index < len
    THEN TakeRowsOneMore(insert_query_size + 1, index + 1, len, max)
    ELSE insert_query_size

RECURSIVE TakeRows(_, _, _, _)
\* lines 130, 140-141: the rows the inner loop puts into one statement
TakeRows(insert_query_size, index, len, max) ==
    IF insert_query_size < max /\ index < len
    THEN TakeRows(insert_query_size + 1, index + 1, len, max)
    ELSE insert_query_size

\* lines 131-139: the values of one buffered row
InsertValues(row) ==
    LET leaf == heap[row[Len(row)].ref]
    IN  << SqlStr(Fmt(row[1])) >>
        \o [i \in 1..(Len(row) - 2) |-> SqlStr(Fmt(row[i + 1]))]
        \o [i \in 1..Len(metric_list) |-> SqlLiteral(leaf[metric_list[i]])]

\* lines 148-156: the columns the statement names
_constructinsert_query_intro == dimension_list \o metric_list

\* the row MySQL stores for one VALUES tuple; a column not named is NULL
InsertedRow(values) ==
    LET cols == _constructinsert_query_intro
    IN  [c \in Columns(class) |->
            IF \E i \in 1..Len(cols) : cols[i] = c
            THEN values[CHOOSE i \in 1..Len(cols) : cols[i] = c]
            ELSE SqlNull]

\* the dimension values of a buffered row
RowPath(row) == [i \in 1..(Len(row) - 1) |-> Fmt(row[i])]

RECURSIVE BumpAll(_, _)
BumpAll(f, paths) ==
    IF paths = <<>> THEN f ELSE BumpAll(Bump(f, Head(paths)), Tail(paths))

\* lines 127-145: one pass of the outer loop: build a statement, run it, commit
_insert ==
    /\ pc = "insert"
    /\ insert_list_index < Len(_insert_list)
    /\ LET n    == TakeRows(0, insert_list_index, Len(_insert_list),
                            max_query_size(dimension_list, metric_list))
           rows == [i \in 1..n |-> InsertValues(_insert_list[insert_list_index + i])]
       IN  /\ n >= 1
           /\ \A i \in 1..n : Len(rows[i]) = Len(_constructinsert_query_intro)
           /\ store' = store \o [i \in 1..n |-> InsertedRow(rows[i])]
           /\ insert_list_index' = insert_list_index + n
           /\ stmts' = Append(stmts, rows)
           /\ insCount' = BumpAll(insCount,
                  [i \in 1..n |-> RowPath(_insert_list[insert_list_index + i])])
           /\ lastStmt' = [kind |-> "INSERT", path |-> <<>>, assigns |-> EmptyMap,
                           rows |-> rows, leaf |-> EmptyMap]
    /\ UNCHANGED <<bls, conf, data, _db_line, _insert_list, heap, _cnx, pc, stack,
                   flushNo, prevOk, storeAtStart, selCount, updCount, lastCheck,
                   insertCalls, connects>>

\* FailedStatement keeping the rows of the statement that raised
FailedStatementKept(table, rows) == table \o rows

\* lines 144-145: the table when execute or commit has raised: the statement
\* is not committed (a transactional table; nothing commits or closes later)
FailedStatement(table, rows) == table

\* lines 144-145: the INSERT or its commit raises; nothing catches it
InsertFails ==
    /\ pc = "insert"
    /\ insert_list_index < Len(_insert_list)
    /\ LET n == TakeRows(0, insert_list_index, Len(_insert_list),
                         max_query_size(dimension_list, metric_list))
       IN  store' = FailedStatement(store,
                [i \in 1..n |->
                    InsertedRow(InsertValues(_insert_list[insert_list_index + i]))])
    /\ pc' = "failed"
    /\ stack' = <<>>
    /\ UNCHANGED <<bls, conf, data, _db_line, _insert_list, heap, _cnx,
                   insert_list_index, hist>>

\* line 127 false, line 146: the buffer is exhausted
InsertDone ==
    /\ pc = "insert"
    /\ insert_list_index >= Len(_insert_list)
    /\ pc' = "close"
    /\ UNCHANGED <<bls, conf, data, _db_line, _insert_list, heap, _cnx, store, stack,
                   insert_list_index, hist>>

\* line 79, and the return of the call
Close ==
    /\ pc = "close"
    /\ _cnx' = "closed"
    /\ stack' = Tail(stack)
    /\ pc' = IF stack' = <<>> THEN "done" ELSE "iter"
    /\ UNCHANGED <<bls, conf, data, _db_line, _insert_list, heap, store,
                   insert_list_index, hist>>

\* lines 44-52: the next run of the script (an uncaught exception ends a
\* run, lines 399-404) builds a new accumulator; the sources return the same
\* records
NewAccumulator ==
    /\ pc \in {"done", "failed"}
    /\ flushNo < MaxFlushes
    /\ _db_line' = <<>>
    /\ _insert_list' = <<>>
    /\ heap' = <<>>
    /\ _cnx' = "none"
    /\ pc' = "fresh"
    /\ stack' = <<>>
    /\ insert_list_index' = 0
    /\ prevOk' = (pc = "done")
    /\ selCount' = EmptyMap
    /\ updCount' = EmptyMap
    /\ insCount' = EmptyMap
    /\ lastCheck' = NoCheck
    /\ lastStmt' = NoStmt
    /\ stmts' = <<>>
    /\ insertCalls' = 0
    /\ connects' = 0
    /\ UNCHANGED <<bls, conf, data, store, flushNo, storeAtStart>>

(***************************************************************************)
(* BLSData.execute before its flush: the series ids are chunked and every  *)
(* chunk is one API call.                                                  *)
(***************************************************************************)
acc == <<conf, data, _db_line, _insert_list, heap, _cnx, store, pc, stack,
         insert_list_index, hist>>

\* lines 279-284: n distinct series ids, in the order they were built
SeriesIds(n) == [i \in 1..n |-> i]

\* lines 220-222: the list is built and _chunk_list is entered
InitChunk ==
    /\ Constructed
    /\ class = "BLSData"
    /\ store = <<>>
    /\ data = EmptyMap
    /\ _series_id_list \in {SeriesIds(n) : n \in 0..MaxSeries}
    /\ current_list = <<>>
    /\ chunked_lists = <<>>
    /\ entry_index = 0
    /\ total_api_calls = 0
    /\ calls = <<>>
    /\ xpc = "chunk"

\* lines 270-275: one entry of the loop
_chunk_list ==
    /\ xpc = "chunk"
    /\ entry_index < Len(_series_id_list)
    /\ LET entry == _series_id_list[entry_index + 1] IN
       IF Len(current_list) < ChunkLength
       THEN /\ current_list' = Append(current_list, entry)
            /\ chunked_lists' = chunked_lists
       ELSE /\ chunked_lists' = Append(chunked_lists, current_list)
            /\ current_list' = <<>>
    /\ entry_index' = entry_index + 1
    /\ UNCHANGED <<acc, _series_id_list, total_api_calls, calls, xpc>>

\* lines 276-277: the loop is over; the last list is added
ChunkReturn ==
    /\ xpc = "chunk"
    /\ entry_index >= Len(_series_id_list)
    /\ chunked_lists' = Append(chunked_lists, current_list)
    /\ xpc' = "call"
    /\ UNCHANGED <<acc, _series_id_list, current_list, entry_index,
                   total_api_calls, calls>>

\* lines 223-230: one list of chunked_list: an API call, or the cap
execute ==
    /\ xpc = "call"
    /\ Len(calls) < Len(chunked_lists)
    /\ IF total_api_calls < ApiCallLimit
       THEN /\ calls' = Append(calls, chunked_lists[Len(calls) + 1])
            /\ total_api_calls' = total_api_calls + 1
            /\ xpc' = xpc
       ELSE /\ xpc' = "called"
            /\ UNCHANGED <<calls, total_api_calls>>
    /\ UNCHANGED <<acc, _series_id_list, current_list, chunked_lists, entry_index>>

\* line 223: no list is left; line 231 follows
ExecuteCalled ==
    /\ xpc = "call"
    /\ Len(calls) >= Len(chunked_lists)
    /\ xpc' = "called"
    /\ UNCHANGED <<acc, _series_id_list, current_list, chunked_lists,
                   entry_index, total_api_calls, calls>>

NextChunk ==
    \/ _chunk_list
    \/ ChunkReturn
    \/ execute
    \/ ExecuteCalled

SpecChunk == InitChunk /\ [][NextChunk]_vars

Next ==
    \/ _fed_parse
    \/ _bls_parse_data
    \/ _parse_ticker_symbols
    \/ _crawl_sic_codes
    \/ recurse_parse
    \/ ConnectFails
    \/ Descend
    \/ _update
    \/ _select
    \/ SelectFails
    \/ UpdateFails
    \/ EndLoop
    \/ _insert
    \/ InsertFails
    \/ InsertDone
    \/ Close
    \/ NewAccumulator

Spec == Init /\ [][Next]_vars

\* the same accumulator, flushing any tree it may hold
SpecAnyTree == InitAnyTree /\ [][Next]_vars

(***************************************************************************)
(* Properties.                                                             *)
(***************************************************************************)
F == Len(dimension_list) + Len(metric_list)
M == Len(_insert_list)

CeilDiv(a, b) == (a + b - 1) \div b

RECURSIVE Flatten(_)
Flatten(ss) == IF ss = <<>> THEN <<>> ELSE Head(ss) \o Flatten(Tail(ss))

\* the leaf dict of a row
RowLeaf(row) == heap[row[Len(row)].ref]

\* the value the table should hold for metric m of the leaf at path p
Expected(p, m) ==
    IF m \in DOMAIN LeafAt(p) THEN SqlStr(LeafAt(p)[m].val) ELSE SqlNull

\* the rows of the table at path p
RowsAt(p) ==
    {i \in 1..Len(store) :
        \A j \in 1..Len(dimension_list) : store[i][dimension_list[j]] = SqlStr(p[j])}

\* C1: an existence check that finds one or more rows with the Row's
\* dimension values makes an UPDATE and buffers nothing; one that finds none
\* appends the Row to _insert_list and writes nothing
C1_UpdateOrBuffer ==
    [][ (pc = "iter" /\ selCount' # selCount) =>
          LET p == lastCheck'.path IN
          /\ selCount' = Bump(selCount, p)
          /\ EqualRows(p) >= 1 =>
                /\ _insert_list' = _insert_list
                /\ \/ /\ updCount' = Bump(updCount, p)
                      /\ lastStmt'.kind = "UPDATE" /\ lastStmt'.path = p
                   \/ pc' = "failed"
          /\ EqualRows(p) = 0 =>
                /\ _insert_list' = Append(_insert_list, _db_line')
                /\ RowPath(_db_line') = p
                /\ updCount' = updCount
                /\ store' = store ]_vars

C1_Witness ==
    /\ flushNo = 1
    /\ \E p \in DOMAIN updCount : updCount[p] = 1
    /\ \E q \in DOMAIN selCount : selCount[q] = 1 /\ updCount[q] = 0
    /\ _insert_list # <<>>

\* C2: a second flush of the same tree, after a first one that returned,
\* inserts no row and leaves every metric value of the table as it was
C2_SecondFlushIdempotent ==
    (pc = "done" /\ flushNo >= 2 /\ prevOk) =>
        /\ Len(store) = Len(storeAtStart)
        /\ \A i \in 1..Min(Len(store), Len(storeAtStart)) :
              \A m \in Range(metric_list) : store[i][m] = storeAtStart[i][m]

\* C3: in one flush every path gets one existence check and at most one
\* write, an UPDATE or one row of one bulk insert
C3_OncePerPath ==
    (flushNo >= 1 /\ pc # "fresh") =>
        \A p \in LeafPaths :
            /\ selCount[p] <= 1
            /\ updCount[p] + insCount[p] <= 1
            /\ pc = "done" => selCount[p] = 1

\* C4: a merge sets or overwrites the named metric of the leaf at the path
\* and changes no other metric of that leaf and no other leaf
C4_MergeSetsOneMetric ==
    [][ (pc = "gather" /\ class # "CompaniesData" /\ data' # data) =>
          \E t \in Entries(data') :
              Entries(data') \ {t} =
                  {e \in Entries(data) : ~(e[1] = t[1] /\ e[2] = t[2])} ]_vars

C4_Witness ==
    /\ pc = "gather"
    /\ class = "BLSData"
    /\ \E p \in LeafPaths : Cardinality(DOMAIN LeafAt(p)) = 2

\* C5: every row built at a leaf has every declared metric, the marker
\* exactly where the leaf supplies none; every UPDATE and INSERT writes NULL,
\* not a string, for those metrics and the leaf's own value ("0" and ""
\* included) for the others, and so the table holds them when the flush has
\* returned
C5_NullFill ==
    /\ \A i \in 1..Len(_insert_list) :
          LET row == _insert_list[i] IN
          \A m \in Range(metric_list) :
              /\ m \in DOMAIN RowLeaf(row)
              /\ RowLeaf(row)[m] = Val(NullMarker)
                    <=> m \notin DOMAIN LeafAt(RowPath(row))
    /\ lastStmt.kind = "UPDATE" =>
          \A m \in Range(metric_list) :
              /\ m \in DOMAIN lastStmt.assigns
              /\ lastStmt.assigns[m] = Expected(lastStmt.path, m)
    /\ lastStmt.kind = "INSERT" =>
          \A r \in 1..Len(lastStmt.rows) : \A j \in 1..Len(metric_list) :
              LET values == lastStmt.rows[r]
                  p == [i \in 1..Len(dimension_list) |-> values[i].s]
              IN  values[Len(dimension_list) + j] = Expected(p, metric_list[j])
    /\ pc = "done" =>
          \A p \in LeafPaths : \A i \in RowsAt(p) : \A m \in Range(metric_list) :
              store[i][m] = Expected(p, m)

C5_Witness ==
    /\ pc = "done"
    /\ stmts # <<>>
    /\ \E p \in LeafPaths : \E m, k \in Range(metric_list) :
          /\ m \notin DOMAIN LeafAt(p)
          /\ k \in DOMAIN LeafAt(p)
          /\ LeafAt(p)[k].val \in {"0", ""}
          /\ \E i \in RowsAt(p) : store[i][m] = SqlNull /\ store[i][k] # SqlNull

\* C6: every bulk insert holds at least one row and at most MaxPlaceholders
\* values, and the statements together hold the buffered rows, each once, in
\* buffer order
C6_Batches ==
    insertCalls >= 1 =>
        /\ \A s \in 1..Len(stmts) :
              /\ Len(stmts[s]) >= 1
              /\ \A r \in 1..Len(stmts[s]) : Len(stmts[s][r]) = F
              /\ Len(stmts[s]) * F <= MaxPlaceholders
              /\ Len(Flatten(stmts[s])) <= MaxPlaceholders
        /\ insert_list_index <= M
        /\ Flatten(stmts) = [i \in 1..insert_list_index |-> InsertValues(_insert_list[i])]
        /\ pc \in {"close", "done"} => insert_list_index = M

C6_Witness ==
    /\ pc = "done"
    /\ Len(stmts) >= 2
    /\ \E s \in 1..Len(stmts) : Len(stmts[s]) >= 2

\* C7 as claimed: M rows of F fields, M*F above the ceiling, are written by
\* ceil(M*F / ceiling) statements
C7_CeilOfPlaceholders ==
    (pc = "done" /\ insertCalls = 1 /\ M * F > MaxPlaceholders) =>
        Len(stmts) = CeilDiv(M * F, MaxPlaceholders)

\* C7 as amended: they are written by ceil(M / floor(ceiling / F)) statements,
\* because a row is never split between two statements
C7_CeilOfRows ==
    (pc = "done" /\ insertCalls = 1 /\ M * F > MaxPlaceholders) =>
        Len(stmts) = CeilDiv(M, MaxPlaceholders \div F)

C7_Witness ==
    /\ pc = "done"
    /\ insertCalls = 1
    /\ M * F > MaxPlaceholders
    /\ Len(stmts) >= 2
    /\ Len(stmts) = CeilDiv(M * F, MaxPlaceholders)

\* C8: the connection is acquired once, before any existence check, and no
\* flush ends, normally or by a failure, with it open
C8_ConnectionReleased ==
    (flushNo >= 1 /\ pc # "fresh") =>
        /\ connects <= 1
        /\ (\E p \in DOMAIN selCount : selCount[p] > 0) => connects = 1
        /\ pc \in {"done", "failed"} => _cnx # "open"

\* C9: _insert runs at most once in a flush, after the last existence check,
\* over every row the traversal buffered, and the connection is closed only
\* when it has written them all
C9_InsertAfterTraversal ==
    (flushNo >= 1 /\ pc # "fresh") =>
        /\ insertCalls <= 1
        /\ stmts # <<>> => insertCalls = 1
        /\ insertCalls = 1 =>
              /\ \A f \in Range(stack) : f.todo = {}
              /\ \A p \in LeafPaths :
                    /\ selCount[p] = 1
                    /\ updCount[p] = 0 =>
                          \E i \in 1..M : RowPath(_insert_list[i]) = p
        /\ (pc = "done" /\ M > 0) =>
              /\ insertCalls = 1
              /\ insert_list_index = M
        /\ pc = "done" => _cnx = "closed"

C9_Witness ==
    /\ pc = "done"
    /\ insertCalls = 1
    /\ stmts # <<>>
    /\ \E p, q \in LeafPaths : p # q /\ updCount[p] = 1 /\ insCount[q] = 1

\* C10 as claimed: an UPDATE assigns exactly the declared metrics
C10_AssignsDeclaredMetrics ==
    lastStmt.kind = "UPDATE" => DOMAIN lastStmt.assigns = Range(metric_list)

\* C10 as amended: an UPDATE assigns exactly the keys of the leaf and the
\* declared metrics the leaf lacks, and none of them is a dimension
C10_AssignsLeafKeys ==
    lastStmt.kind = "UPDATE" =>
        /\ DOMAIN lastStmt.assigns = Range(metric_list) \cup DOMAIN lastStmt.leaf
        /\ DOMAIN lastStmt.assigns \cap Range(dimension_list) = {}
        /\ \A i \in 1..Len(store) : \A d \in Range(dimension_list) :
              i <= Len(storeAtStart) => store[i][d] = storeAtStart[i][d]

C10_Witness ==
    /\ lastStmt.kind = "UPDATE"
    /\ "lastUpdated" \in DOMAIN lastStmt.assigns
    /\ \E i \in RowsAt(lastStmt.path) : store[i]["lastUpdated"] = SqlStr(Today)

\* C11: when a flush has returned, _insert_list is empty: no row buffered by
\* it is left for a later flush on the same accumulator
C11_BufferEmptyAfterFlush ==
    pc = "done" => _insert_list = <<>>

\* C12: a flush of a tree with a leaf above or below depth
\* len(dimension_list) does not return normally, and writes nothing for the
\* path of such a leaf: no UPDATE and no row of a bulk insert
C12_MalformedTreeAborts ==
    (flushNo >= 1 /\ pc # "fresh") =>
        \A p \in LeafPaths : Len(p) # Len(dimension_list) =>
            /\ pc # "done"
            /\ p \in DOMAIN updCount => updCount[p] = 0
            /\ \A q \in DOMAIN insCount :
                  (insCount[q] > 0 /\ Len(q) >= 1 /\ Len(p) >= 1) => q[1] # p[1]

\* C13: when the existence check or the UPDATE of one row has failed, the
\* traversal goes on: every other leaf gets its existence check and its
\* UPDATE or its place in the buffer, so a flush that ends has left at most
\* the failed leaf untreated
C13_RowFailureCaught ==
    (pc = "failed" /\ connects = 1 /\ insertCalls = 0) =>
        Cardinality({p \in LeafPaths :
            \/ selCount[p] = 0
            \/ /\ updCount[p] = 0
               /\ ~\E i \in 1..M : RowPath(_insert_list[i]) = p}) <= 1

\* C14: when a bulk insert has failed, the table holds the rows of the
\* statements executed before it, in order, and no row of the failed
\* statement or of a later one; the failed statement is the last one tried
\* and the flush has ended with the failure
C14_FailedBatch ==
    (pc = "failed" /\ insertCalls = 1) =>
        /\ insert_list_index < M
        /\ Len(Flatten(stmts)) = insert_list_index
        /\ lastStmt.kind = "INSERT" <=> insert_list_index > 0
        /\ Len(store) = Len(storeAtStart) + insert_list_index
        /\ \A i \in 1..insert_list_index :
              store[Len(storeAtStart) + i] =
                  InsertedRow(InsertValues(_insert_list[i]))
        /\ stack = <<>>

C14_Witness ==
    /\ pc = "failed"
    /\ insertCalls = 1
    /\ Len(stmts) >= 1
    /\ insert_list_index < M
    /\ Len(store) > Len(storeAtStart)

\* the dimension values of a row of the table
RowDims(row) == [j \in 1..Len(dimension_list) |-> row[dimension_list[j]].s]

\* C15: no step of a flush changes self.data, removes a row of the table,
\* or changes a row whose dimension values are not a path of the tree
C15_FrameOfFlush ==
    [][ pc' \in {"iter", "insert", "close", "done", "failed"} =>
          /\ data' = data
          /\ Len(store') >= Len(store)
          /\ \A i \in 1..Len(store) :
                RowDims(store[i]) \notin LeafPaths => store'[i] = store[i] ]_vars

C15_Witness ==
    /\ pc = "done"
    /\ \E p \in LeafPaths : updCount[p] = 1
    /\ \E i \in 1..Len(storeAtStart) :
          /\ RowDims(storeAtStart[i]) \notin LeafPaths
          /\ RowDims(storeAtStart[i])[1] \in {p[1] : p \in LeafPaths}
          /\ store[i] = storeAtStart[i]
    /\ \E i \in 1..Len(storeAtStart) : store[i] # storeAtStart[i]

\* the leaf dict lines 69-73 build for the leaf at path p
FilledLeaf(p) ==
    [k \in DOMAIN LeafAt(p) \cup Range(metric_list) |->
        IF k \in DOMAIN LeafAt(p) THEN LeafAt(p)[k] ELSE Val(NullMarker)]

\* C16: a row appended to _insert_list holds the path and the null-filled
\* leaf of its existence check; no later step of the accumulator changes
\* its cells or its dict, so the bulk insert writes those values; and no two
\* buffered rows have the same dimension values
C16_BufferedRowsStable ==
    [][ pc' # "fresh" =>
          /\ \A i \in 1..Len(_insert_list) :
                /\ i <= Len(_insert_list')
                /\ _insert_list'[i] = _insert_list[i]
                /\ heap'[_insert_list[i][Len(_insert_list[i])].ref] = RowLeaf(_insert_list[i])
          /\ Len(_insert_list') > Len(_insert_list) =>
                LET row == _insert_list'[Len(_insert_list')] IN
                /\ Len(_insert_list') = Len(_insert_list) + 1
                /\ RowPath(row) = lastCheck'.path
                /\ heap'[row[Len(row)].ref] = FilledLeaf(lastCheck'.path)
          /\ (pc = "insert" /\ stmts' # stmts) =>
                /\ Len(stmts') = Len(stmts) + 1
                /\ \A r \in 1..Len(stmts'[Len(stmts')]) :
                      LET row == _insert_list[insert_list_index + r]
                          p   == RowPath(row)
                      IN  stmts'[Len(stmts')][r] =
                              [i \in 1..Len(p) |-> SqlStr(p[i])]
                              \o [j \in 1..Len(metric_list) |->
                                     SqlLiteral(FilledLeaf(p)[metric_list[j]])]
          /\ \A i, j \in 1..Len(_insert_list') :
                i # j => RowPath(_insert_list'[i]) # RowPath(_insert_list'[j]) ]_vars

C16_Witness ==
    /\ pc = "done"
    /\ stmts # <<>>
    /\ Len(_insert_list) >= 2
    /\ Len(_db_line) >= 2
    /\ \E i \in 1..Len(_insert_list) : _insert_list[i] # _db_line

\* C17: the lists _chunk_list returns have at most ChunkLength entries and,
\* taken together in order, are the series ids it was given; so the API
\* calls of execute, up to the cap, send every series id
C17_ChunksKeepEveryId ==
    /\ xpc \in {"call", "called"} =>
          /\ \A c \in 1..Len(chunked_lists) : Len(chunked_lists[c]) <= ChunkLength
          /\ Flatten(chunked_lists) = _series_id_list
    /\ (xpc = "called" /\ Len(chunked_lists) <= ApiCallLimit) =>
          Flatten(calls) = _series_id_list

====
